---- MODULE Spec2Model ----
(*****************************************************************************)
(* Cisco Channel Guard: the SSH session manager (switch_manager.py), the     *)
(* IOS command generator (ios_commands.py) and the topology validator of     *)
(* the web layer (app.py).                                                   *)
(*                                                                           *)
(* Spec models SwitchManager shared by several request threads.  The         *)
(* critical sections under self._lock are serialised by `lock`; connect()    *)
(* is split at every transport call, get_status() and get_ios_type() at      *)
(* every unlocked read.  The transport (netmiko) is the environment: every   *)
(* call may succeed or raise one of ExcKinds; disconnect() releases the      *)
(* channel even when it raises (the caller swallows the exception).          *)
(*                                                                           *)
(* CompilerSpec calls the four generators, in any order, on a topology of    *)
(* the data model.  ValidatorSpec posts a loosely typed document, validates  *)
(* it and, when it is accepted, calls the generators on what was saved.      *)
(*****************************************************************************)
EXTENDS Integers, Sequences, FiniteSets, TLC

\* ---------------------------------------------------------------- bounds
MaxChannels == 2          \* transport channels open at the same time
MaxClock    == 2          \* successful connects (distinct timestamps)

Threads  == {"t1", "t2"}
Hosts    == {"h1", "h2"}
Users    == {"admin"}
Hints    == {"auto", "classic", "iosxe"}

\* Exception classes the handlers of switch_manager.py tell apart.
ExcKinds == {"auth", "timeout", "runtime", "other"}

NoConn   == 0             \* self._connection is None
NoTime   == 0             \* self._connected_at is None
NoneStr  == "None"
NoThread == "none"
NoInfo   == [k \in {} |-> NoneStr]     \* the empty dict {}

\* ------------------------------------------------------- text helpers
UpperCase == <<"A","B","C","D","E","F","G","H","I","J","K","L","M",
               "N","O","P","Q","R","S","T","U","V","W","X","Y","Z">>
LowerCase == <<"a","b","c","d","e","f","g","h","i","j","k","l","m",
               "n","o","p","q","r","s","t","u","v","w","x","y","z">>

LowerChar(c) ==
    IF \E i \in 1..26 : UpperCase[i] = c
    THEN LowerCase[CHOOSE i \in 1..26 : UpperCase[i] = c]
    ELSE c

\* str.lower()
Lower(s) == [i \in 1..Len(s) |-> LowerChar(s[i])]

IsSpace(c) == c \in {" ", "\t", "\n"}

\* case-insensitive literal match of word w at position i of s
MatchAt(s, i, w) ==
    /\ i >= 1
    /\ i + Len(w) - 1 <= Len(s)
    /\ \A k \in 1..Len(w) : LowerChar(s[i + k - 1]) = LowerChar(w[k])

\* re.search(r"IOS[\s-]+XE", text, re.IGNORECASE)
SearchIosXe(text) ==
    \E i \in 1..Len(text) : \E j \in (i + 4)..Len(text) :
        /\ MatchAt(text, i, <<"I","O","S">>)
        /\ \A k \in (i + 3)..(j - 1) : IsSpace(text[k]) \/ text[k] = "-"
        /\ MatchAt(text, j, <<"X","E">>)

\* re.search(r"XE Software", text, re.IGNORECASE)
SearchXeSoftware(text) ==
    \E i \in 1..Len(text) :
        MatchAt(text, i, <<"X","E"," ","S","o","f","t","w","a","r","e">>)

\* detect_ios_version: the dialect part of the descriptor (ios_type and
\* netmiko_type); version, model and platform label do not take part in
\* any decision of SwitchManager.
detect_ios_version(text) ==
    LET is_xe == SearchIosXe(text) \/ SearchXeSoftware(text)
    IN  [ios_type     |-> IF is_xe THEN "iosxe" ELSE "classic",
         netmiko_type |-> IF is_xe THEN "cisco_xe" ELSE "cisco_ios"]

\* ------------------------------------------------------- the devices
\* 'show version' text of the device behind each management address.
ShowVersion ==
    [h1 |-> <<"C","i","s","c","o"," ","I","O","S"," ","S","o","f","t","w","a","r","e">>,
     h2 |-> <<"C","i","s","c","o"," ","I","O","S","-","X","E"," ","1","6">>]

\* 'show running-config | include hostname' output, as words.
ShowHostname ==
    [h1 |-> <<"hostname", "sw1">>,
     h2 |-> <<"hostname", "sw2">>]

\* hostname_raw.replace("hostname", "").strip()
HostnameOf(raw) == SelectSeq(raw, LAMBDA w : w # "hostname")

\* =================================================================
\* ios_commands.py: the command generator
\* =================================================================
\* A topology is [ios_version, uplinks, channels]; ios_version is a string
\* given as the tuple of its characters; a channel is [port, vlan, description,
\* io_block, devices]; a binding is [ip, mac].  A field that is missing
\* (or empty) holds "", the description key that is missing holds Absent.
Absent == "<absent>"

\* str.strip()
RECURSIVE LStrip(_)
LStrip(s) == IF s # <<>> /\ IsSpace(Head(s)) THEN LStrip(Tail(s)) ELSE s

RECURSIVE RStrip(_)
RStrip(s) ==
    IF s # <<>> /\ IsSpace(s[Len(s)]) THEN RStrip(SubSeq(s, 1, Len(s) - 1))
    ELSE s

Strip(s) == RStrip(LStrip(s))

\* str.replace(c, "") for a single character c
Remove(s, c) == SelectSeq(s, LAMBDA x : x # c)

\* topology.get("ios_version", "classic"): the key may be missing
ios_version_of(topology) ==
    IF "ios_version" \in DOMAIN topology THEN topology.ios_version
    ELSE <<"c","l","a","s","s","i","c">>

\* _normalize_ios_version
normalize_ios_version(ios_version) ==
    LET v == Remove(Remove(Strip(Lower(ios_version)), "-"), "_")
    IN  IF v \in {<<"x","e">>, <<"i","o","s","x","e">>, <<"i","o","x","e">>}
        THEN "iosxe" ELSE "classic"

\* sorted(S) for a set of integers
RECURSIVE Sorted(_)
Sorted(S) ==
    IF S = {} THEN <<>>
    ELSE LET m == CHOOSE x \in S : \A y \in S : x <= y
         IN  <<m>> \o Sorted(S \ {m})

\* a _get_vlans that sorts the wrong way round
get_vlans_Descending(channels) ==
    LET up == Sorted({channels[i].vlan : i \in {j \in 1..Len(channels) :
                                                  channels[j].vlan # 0}})
    IN  [i \in 1..Len(up) |-> up[Len(up) + 1 - i]]

\* _get_vlans: sorted(set(int(ch["vlan"]) for ch in channels if ch.get("vlan")))
get_vlans(channels) ==
    Sorted({channels[i].vlan : i \in {j \in 1..Len(channels) :
                                          channels[j].vlan # 0}})

\* the concatenation of a sequence of command lists
RECURSIVE Flatten(_)
Flatten(ss) == IF ss = <<>> THEN <<>> ELSE Head(ss) \o Flatten(Tail(ss))

\* a _global_prerequisites that enables device tracking before the VLANs
global_prerequisites_TrackingFirst(ios_version, channels, uplinks) ==
    LET ios   == normalize_ios_version(ios_version)
        vlans == get_vlans(channels)
    IN  <<"ip dhcp snooping", "no ip dhcp snooping information option">>
        \o <<IF ios = "iosxe" THEN "device-tracking tracking"
             ELSE "ip device tracking">>
        \o [i \in 1..Len(vlans) |->
               "ip dhcp snooping vlan " \o ToString(vlans[i])]
        \o Flatten([i \in 1..Len(uplinks) |->
               <<"interface " \o uplinks[i], "  ip dhcp snooping trust">>])

\* a _global_prerequisites that leaves option-82 insertion alone
global_prerequisites_KeepOption82(ios_version, channels, uplinks) ==
    LET ios   == normalize_ios_version(ios_version)
        vlans == get_vlans(channels)
    IN  <<"ip dhcp snooping">>
        \o [i \in 1..Len(vlans) |->
               "ip dhcp snooping vlan " \o ToString(vlans[i])]
        \o <<IF ios = "iosxe" THEN "device-tracking tracking"
             ELSE "ip device tracking">>
        \o Flatten([i \in 1..Len(uplinks) |->
               <<"interface " \o uplinks[i], "  ip dhcp snooping trust">>])

\* _global_prerequisites
global_prerequisites(ios_version, channels, uplinks) ==
    LET ios   == normalize_ios_version(ios_version)
        vlans == get_vlans(channels)
    IN  <<"ip dhcp snooping", "no ip dhcp snooping information option">>
        \o [i \in 1..Len(vlans) |->
               "ip dhcp snooping vlan " \o ToString(vlans[i])]
        \o <<IF ios = "iosxe" THEN "device-tracking tracking"
             ELSE "ip device tracking">>
        \o Flatten([i \in 1..Len(uplinks) |->
               <<"interface " \o uplinks[i], "  ip dhcp snooping trust">>])

\* the f-string of one binding line
BindingLine(b, ch) ==
    "ip source binding " \o b.mac \o " vlan " \o ToString(ch.vlan) \o " "
        \o b.ip \o " interface " \o ch.port

\* if b.get("mac") and b.get("ip")
Complete(b) == b.mac # "" /\ b.ip # ""

\* a _static_bindings that leaves the devices out
static_bindings_IoOnly(channels) ==
    Flatten([i \in 1..Len(channels) |->
               IF Complete(channels[i].io_block)
               THEN <<BindingLine(channels[i].io_block, channels[i])>>
               ELSE <<>>])

\* a _static_bindings that goes channel by channel, as the rollback does
static_bindings_PerChannel(channels) ==
    Flatten([i \in 1..Len(channels) |->
               (IF Complete(channels[i].io_block)
                THEN <<BindingLine(channels[i].io_block, channels[i])>>
                ELSE <<>>)
               \o Flatten([j \in 1..Len(channels[i].devices) |->
                  IF Complete(channels[i].devices[j])
                  THEN <<BindingLine(channels[i].devices[j], channels[i])>>
                  ELSE <<>>])])

\* _static_bindings: first every I/O block, then every device
static_bindings(channels) ==
    Flatten([i \in 1..Len(channels) |->
               IF Complete(channels[i].io_block)
               THEN <<BindingLine(channels[i].io_block, channels[i])>>
               ELSE <<>>])
    \o
    Flatten([i \in 1..Len(channels) |->
               Flatten([j \in 1..Len(channels[i].devices) |->
                  IF Complete(channels[i].devices[j])
                  THEN <<BindingLine(channels[i].devices[j], channels[i])>>
                  ELSE <<>>])])

\* the block _secure_access_ports emits for one channel, with max_macs
PortBlock(ch, max_macs) ==
    <<"interface " \o ch.port,
      "  description " \o (IF ch.description = Absent THEN ch.port
                           ELSE ch.description),
      "  switchport mode access",
      "  switchport access vlan " \o ToString(ch.vlan),
      "  switchport port-security maximum " \o ToString(max_macs),
      "  switchport port-security violation restrict",
      "  switchport port-security",
      "  ip verify source port-security",
      "  spanning-tree portfast",
      "  spanning-tree bpduguard enable",
      "  no shutdown">>

\* a _secure_access_ports that forgets the I/O block in max_macs
secure_access_ports_DevicesOnly(channels) ==
    Flatten([i \in 1..Len(channels) |->
               PortBlock(channels[i], Len(channels[i].devices))])

\* _secure_access_ports
secure_access_ports(channels) ==
    Flatten([i \in 1..Len(channels) |->
               PortBlock(channels[i], 1 + Len(channels[i].devices))])

\* generate_commands
generate_commands(topology) ==
    global_prerequisites(ios_version_of(topology), topology.channels,
                         topology.uplinks)
    \o static_bindings(topology.channels)
    \o secure_access_ports(topology.channels)

\* generate_verify_commands
generate_verify_commands(topology) ==
    LET ios      == normalize_ios_version(ios_version_of(topology))
        channels == topology.channels
    IN  <<"show ip dhcp snooping",
          "show ip source binding",
          "show ip verify source",
          "show port-security">>
        \o <<IF ios = "iosxe" THEN "show device-tracking database"
             ELSE "show ip device tracking all">>
        \o Flatten([i \in 1..Len(channels) |->
              <<"show port-security interface " \o channels[i].port,
                "show ip verify source interface " \o channels[i].port,
                "show spanning-tree interface " \o channels[i].port
                    \o " detail">>])

\* the f-string of one negated binding line
NoBindingLine(b, ch) ==
    "no ip source binding " \o b.mac \o " vlan " \o ToString(ch.vlan) \o " "
        \o b.ip \o " interface " \o ch.port

\* generate_rollback_commands: the bindings channel by channel (I/O block,
\* then its devices), the ports, the uplinks, the VLANs, the globals
generate_rollback_commands(topology) ==
    LET ios      == normalize_ios_version(ios_version_of(topology))
        channels == topology.channels
        uplinks  == topology.uplinks
        vlans    == get_vlans(channels)
    IN  Flatten([i \in 1..Len(channels) |->
              (IF Complete(channels[i].io_block)
               THEN <<NoBindingLine(channels[i].io_block, channels[i])>>
               ELSE <<>>)
              \o Flatten([j \in 1..Len(channels[i].devices) |->
                    IF Complete(channels[i].devices[j])
                    THEN <<NoBindingLine(channels[i].devices[j],
                                         channels[i])>>
                    ELSE <<>>])])
        \o Flatten([i \in 1..Len(channels) |->
              <<"interface " \o channels[i].port,
                "  no ip verify source",
                "  no switchport port-security",
                "  no spanning-tree bpduguard enable",
                "  no spanning-tree portfast">>])
        \o Flatten([i \in 1..Len(uplinks) |->
              <<"interface " \o uplinks[i], "  no ip dhcp snooping trust">>])
        \o [i \in 1..Len(vlans) |->
               "no ip dhcp snooping vlan " \o ToString(vlans[i])]
        \o <<"no ip dhcp snooping">>
        \o <<IF ios = "iosxe" THEN "no device-tracking tracking"
             ELSE "no ip device tracking">>

\* sum(len(ch.get("devices", [])) for ch in channels)
RECURSIVE total_devices(_)
total_devices(channels) ==
    IF channels = <<>> THEN 0
    ELSE Len(Head(channels).devices) + total_devices(Tail(channels))

\* generate_summary
generate_summary(topology) ==
    LET ios      == normalize_ios_version(ios_version_of(topology))
        channels == topology.channels
    IN  [channels       |-> Len(channels),
         io_blocks      |-> Len(channels),
         devices        |-> total_devices(channels),
         bindings       |-> total_devices(channels) + Len(channels),
         vlans          |-> get_vlans(channels),
         ios_version    |-> ios,
         platform_label |-> IF ios = "iosxe" THEN "IOS-XE (Stratix 5800)"
                            ELSE "IOS Classic (Stratix 5400 / 5700)",
         total_commands |-> Len(generate_commands(topology)),
         security_mechanisms |->
             <<"DHCP Snooping", "IP Source Guard (IPSG)", "Port Security",
               "BPDU Guard", "PortFast">>]

\* ch["port"] raises KeyError for a channel without the key; every
\* generator indexes it for every channel (generate_summary through
\* generate_commands).  ch["vlan"] is there in every topology considered.
KeyError(topology) ==
    \E i \in 1..Len(topology.channels) : topology.channels[i].port = Absent

\* ------------------------------------------- the topologies explored
MaxChans == 2         \* channels per topology

\* a port comes with or without a description
Interfaces   == {[port |-> "Gi1/0/1", description |-> Absent],
                 [port |-> "Gi1/0/2", description |-> "PLC"]}
Vlans        == {10, 20}
\* the I/O block and the devices of a channel: complete bindings only, or
\* with a binding that lacks its ip and one that lacks its mac
Bindings     ==
    {[io_block |-> [ip |-> "10.0.0.1", mac |-> "aabb.ccdd.eeff"],
      devices  |-> <<>>],
     [io_block |-> [ip |-> "10.0.0.1", mac |-> "aabb.ccdd.eeff"],
      devices  |-> <<[ip |-> "10.0.0.2", mac |-> "1122.3344.5566"]>>],
     [io_block |-> [ip |-> "", mac |-> "aabb.ccdd.eeff"],
      devices  |-> <<[ip |-> "10.0.0.2", mac |-> "1122.3344.5566"],
                     [ip |-> "10.0.0.3", mac |-> ""]>>]}
IosVersions  == {<<"c","l","a","s","s","i","c">>,
                 <<" ","I","O","S","-","X","E">>,
                 <<"x","e","1","7">>}
UplinkLists  == {<<>>, <<"Gi1/0/24", "Gi1/0/23">>}

SeqsUpTo(S, n) == UNION {[1..k -> S] : k \in 0..n}

ChannelSet ==
    {[port |-> f.port, vlan |-> v, description |-> f.description,
      io_block |-> b.io_block, devices |-> b.devices] :
        f \in Interfaces, v \in Vlans, b \in Bindings}

\* with the ios_version key, and without it
Topologies ==
    [ios_version : IosVersions, uplinks : UplinkLists,
     channels : SeqsUpTo(ChannelSet, MaxChans)]
    \cup [uplinks : UplinkLists, channels : SeqsUpTo(ChannelSet, MaxChans)]

NoTopology == [ios_version |-> <<>>, uplinks |-> <<>>, channels |-> <<>>]

\* the generators called so far (ran), those that raised, and what the
\* others returned
Generators == {"apply", "verify", "rollback", "summary"}
NoSummary  == [channels |-> 0]
NoOutput   ==
    [ran |-> {}, raised |-> {}, apply |-> <<>>, verify |-> <<>>,
     rollback |-> <<>>, summary |-> NoSummary]

\* =================================================================
\* app.py: the topology validator
\* =================================================================
\* A posted document is [ios_version, uplinks, channels] (the ios_version
\* key may be missing); its strings that the validator parses (ip, mac, a
\* vlan given as text) are the tuples of their characters, <<>> when the
\* field is missing or empty.  A vlan is None, an integer or a string:
\* [kind, val, text].  A port key that is missing holds Absent.
Digits == <<"0","1","2","3","4","5","6","7","8","9">>

IsDigit(c) == \E i \in 1..10 : Digits[i] = c
DigitVal(c) == (CHOOSE i \in 1..10 : Digits[i] = c) - 1
IsHex(c) == IsDigit(c) \/ LowerChar(c) \in {"a","b","c","d","e","f"}

\* the number a string of decimal digits denotes
RECURSIVE ToInt(_)
ToInt(s) ==
    IF s = <<>> THEN 0
    ELSE 10 * ToInt(SubSeq(s, 1, Len(s) - 1)) + DigitVal(s[Len(s)])

\* str.split(c)
RECURSIVE Split(_, _)
Split(s, c) ==
    IF \A i \in 1..Len(s) : s[i] # c THEN <<s>>
    ELSE LET i == CHOOSE k \in 1..Len(s) :
                     s[k] = c /\ \A m \in 1..(k - 1) : s[m] # c
         IN  <<SubSeq(s, 1, i - 1)>> \o Split(SubSeq(s, i + 1, Len(s)), c)

\* the string a tuple of characters stands for
RECURSIVE Join(_)
Join(s) == IF s = <<>> THEN "" ELSE Head(s) \o Join(Tail(s))

\* '$' of re.match also matches before a newline that ends the string
BeforeNewline(s) ==
    IF s # <<>> /\ s[Len(s)] = "\n" THEN SubSeq(s, 1, Len(s) - 1) ELSE s

\* validate_ip: ^\d{1,3}\.\d{1,3}\.\d{1,3}\.\d{1,3}$, every octet 0..255
validate_ip(ip) ==
    LET parts == Split(BeforeNewline(ip), ".")
    IN  /\ Len(parts) = 4
        /\ \A i \in 1..4 :
              /\ Len(parts[i]) \in 1..3
              /\ \A k \in 1..Len(parts[i]) : IsDigit(parts[i][k])
              /\ ToInt(parts[i]) <= 255

\* validate_mac: ^[0-9a-fA-F]{4}\.[0-9a-fA-F]{4}\.[0-9a-fA-F]{4}$
validate_mac(mac) ==
    LET m == BeforeNewline(mac)
    IN  /\ Len(m) = 14
        /\ \A i \in 1..14 : IF i \in {5, 10} THEN m[i] = "." ELSE IsHex(m[i])

\* normalize_mac: the mac itself when it does not hold 12 hex digits
normalize_mac(mac) ==
    LET r == Remove(Remove(Remove(Lower(Strip(mac)), "."), ":"), "-")
    IN  IF Len(r) # 12 \/ \E i \in 1..Len(r) : ~IsHex(r[i]) THEN mac
        ELSE SubSeq(r, 1, 4) \o <<".">> \o SubSeq(r, 5, 8) \o <<".">>
                 \o SubSeq(r, 9, 12)

NoVlan      == [kind |-> "none", val |-> 0, text |-> <<>>]
IntVlan(n)  == [kind |-> "int", val |-> n, text |-> <<>>]
StrVlan(cs) == [kind |-> "str", val |-> 0, text |-> cs]

\* the truth value of ch.get("vlan")
Truthy(v) ==
    \/ v.kind = "int" /\ v.val # 0
    \/ v.kind = "str" /\ v.text # <<>>

\* int(ch["vlan"]): [ok, val]; ok is FALSE where int() raises ValueError.
\* A string is stripped, may carry a sign, and must then be decimal digits.
int(v) ==
    IF v.kind = "int" THEN [ok |-> TRUE, val |-> v.val]
    ELSE LET t    == Strip(v.text)
             sign == t # <<>> /\ t[1] \in {"+", "-"}
             body == IF sign THEN Tail(t) ELSE t
             ok   == body # <<>> /\ \A i \in 1..Len(body) : IsDigit(body[i])
         IN  [ok  |-> ok,
              val |-> IF ~ok THEN 0
                      ELSE IF t[1] = "-" THEN 0 - ToInt(body)
                      ELSE ToInt(body)]

\* the errors one binding adds: io["mac"] is normalized before it is checked
binding_errors(b, label, ip_name, mac_name) ==
    (IF b.ip # <<>> /\ ~validate_ip(b.ip)
     THEN <<label \o ": " \o ip_name \o " '" \o Join(b.ip) \o "' is invalid">>
     ELSE <<>>)
    \o
    (IF b.mac # <<>> /\ ~validate_mac(normalize_mac(b.mac))
     THEN <<label \o ": " \o mac_name \o " '"
               \o Join(normalize_mac(b.mac)) \o "' is invalid">>
     ELSE <<>>)

\* a first loop of validate_topology_data that does not ask for the port
channel_errors_NoPortRule(i, ch) ==
    LET label == "Channel " \o ToString(i)
    IN  (IF ~Truthy(ch.vlan) THEN <<label \o ": VLAN is required">>
         ELSE <<>>)
        \o binding_errors(ch.io_block, label, "I/O Block IP", "I/O Block MAC")
        \o Flatten([j \in 1..Len(ch.devices) |->
              binding_errors(ch.devices[j],
                             label \o ", Device " \o ToString(j),
                             "IP", "MAC")])

\* the body of the first loop of validate_topology_data, for channel i
channel_errors(i, ch) ==
    LET label == "Channel " \o ToString(i)
    IN  (IF ch.port \in {Absent, ""} THEN <<label \o ": Port is required">>
         ELSE <<>>)
        \o
        (IF ~Truthy(ch.vlan) THEN <<label \o ": VLAN is required">>
         ELSE <<>>)
        \o binding_errors(ch.io_block, label, "I/O Block IP", "I/O Block MAC")
        \o Flatten([j \in 1..Len(ch.devices) |->
              binding_errors(ch.devices[j],
                             label \o ", Device " \o ToString(j),
                             "IP", "MAC")])

\* io["mac"] = normalize_mac(io["mac"]), in place
normalized(b) ==
    [b EXCEPT !.mac = IF b.mac # <<>> THEN normalize_mac(b.mac) ELSE b.mac]

\* validate_topology_data: [raised, errors, data]; data is the document as
\* the call leaves it (macs normalized, vlans made integers up to the
\* channel whose int() raised, if any)
validate_topology_data(data) ==
    LET channels == data.channels
        n        == Len(channels)
        errors   == Flatten([i \in 1..n |-> channel_errors(i, channels[i])])
        bad      == {i \in 1..n : Truthy(channels[i].vlan)
                                     /\ ~int(channels[i].vlan).ok}
        stop     == IF bad = {} THEN n + 1
                    ELSE CHOOSE i \in bad : \A k \in bad : i <= k
        after    == [i \in 1..n |->
                      [channels[i] EXCEPT
                         !.io_block = normalized(@),
                         !.devices  = [j \in 1..Len(@) |-> normalized(@[j])],
                         !.vlan     = IF i < stop /\ Truthy(@)
                                      THEN IntVlan(int(@).val) ELSE @]]
    IN  [raised |-> bad # {},
         errors |-> IF bad # {} THEN <<>> ELSE errors,
         data   |-> [data EXCEPT !.channels = after]]

\* save_topology then load_topology: the document as the generators get
\* it, its strings as strings
stored_binding(b) == [ip |-> Join(b.ip), mac |-> Join(b.mac)]

stored(data) ==
    [data EXCEPT !.channels = [i \in 1..Len(@) |->
        [port        |-> @[i].port,
         vlan        |-> @[i].vlan.val,
         description |-> @[i].description,
         io_block    |-> stored_binding(@[i].io_block),
         devices     |-> [j \in 1..Len(@[i].devices) |->
                             stored_binding(@[i].devices[j])]]]]

\* --------------------------------------------- the documents explored
Ip1      == <<"1","0",".","0",".","0",".","1">>
Ip2      == <<"1","0",".","0",".","0",".","2">>
IpBad    == <<"1","0",".","0",".","0",".","2","5","6">>
MacColon == <<"A","A",":","B","B",":","C","C",":","D","D",":","E","E",":","F","F">>
MacDot   == <<"1","1","2","2",".","3","3","4","4",".","5","5","6","6">>
MacShort == <<"a","a","b","b",".","c","c","d","d">>

RawChannelSet ==
    {[port |-> "Gi1/0/1", vlan |-> IntVlan(10), description |-> Absent,
      io_block |-> [ip |-> Ip1, mac |-> MacColon],
      devices |-> <<[ip |-> Ip2, mac |-> MacDot]>>],
     [port |-> "Gi1/0/1", vlan |-> StrVlan(<<"2","0">>), description |-> "PLC",
      io_block |-> [ip |-> Ip1, mac |-> <<>>],
      devices |-> <<>>],
     [port |-> Absent, vlan |-> IntVlan(10), description |-> Absent,
      io_block |-> [ip |-> <<>>, mac |-> <<>>],
      devices |-> <<>>],
     [port |-> "Gi1/0/2", vlan |-> StrVlan(<<"a","b","c">>),
      description |-> Absent,
      io_block |-> [ip |-> IpBad, mac |-> MacColon],
      devices |-> <<>>],
     [port |-> "Gi1/0/2", vlan |-> NoVlan, description |-> Absent,
      io_block |-> [ip |-> <<>>, mac |-> MacShort],
      devices |-> <<[ip |-> IpBad, mac |-> MacShort]>>],
     [port |-> "Gi1/0/2", vlan |-> IntVlan(0 - 5), description |-> Absent,
      io_block |-> [ip |-> Ip1, mac |-> MacDot],
      devices |-> <<>>],
     [port |-> "Gi1/0/2", vlan |-> StrVlan(<<"0">>), description |-> Absent,
      io_block |-> [ip |-> <<>>, mac |-> <<>>],
      devices |-> <<[ip |-> Ip2, mac |-> <<>>]>>]}

RawTopologies ==
    [ios_version : IosVersions, uplinks : UplinkLists,
     channels : SeqsUpTo(RawChannelSet, MaxChans)]
    \cup [uplinks : UplinkLists, channels : SeqsUpTo(RawChannelSet, MaxChans)]

NoRaw        == [channels |-> <<>>]
\* posted (ghost) is the document as it was posted
NoValidation == [done |-> FALSE, raised |-> FALSE, errors |-> <<>>,
                 posted |-> NoRaw]

\* =================================================================
\* switch_manager.py: the session manager
\* =================================================================
\* ---------------------------------------------------------------- state
VARIABLES
    topology,       \* the active topology (network.yml), read by the generators
    output,         \* what the generators returned for it
    raw,            \* the topology document posted for validation
    validation,     \* what validate_topology_data made of it
    connection,     \* self._connection: NoConn or a channel id
    host,           \* self._host
    username,       \* self._username
    connected_at,   \* self._connected_at
    device_info,    \* self._device_info
    lock,           \* self._lock: the thread holding it, or NoThread
    pc,             \* pc[t]: where thread t stands in its current call
    loc,            \* loc[t]: the locals of thread t's current call
    ret,            \* the call that returned (or raised) in the last step, if any
    openChans,      \* transport: channels opened and not yet disconnected
    clock           \* wall clock, ticks at every successful connect

session_vars == <<connection, host, username, connected_at, device_info>>
manager_vars == <<connection, host, username, connected_at, device_info,
                  lock, pc, loc, ret, openChans, clock>>
compiler_vars == <<topology, output, raw, validation>>
vars == <<manager_vars, compiler_vars>>

NoLoc ==
    [host |-> NoneStr, user |-> NoneStr, hint |-> NoneStr, ntype |-> NoneStr,
     conn |-> NoConn, detected |-> NoInfo, hostname |-> <<>>, calls |-> <<>>,
     was |-> NoConn, s_host |-> NoneStr, s_user |-> NoneStr, s_at |-> NoTime,
     g_host |-> NoTime, g_user |-> NoTime]

\* A return: the operation, whether it returned (ok) or raised
\* (err), the value returned, and what the call observed on its way:
\*   hint   the ios_version argument of connect()
\*   target the host argument of connect()
\*   ios_type  the value get_ios_type() returned
\*   was    self._connection when the call took the lock
\*   probe  outcome of is_alive(), if it was called
\*   cause  class of the transport exception that ended the call (for
\*          disconnect: that the close raised and that was swallowed), if any
\*   calls  the transport calls the call made, in order
\*   reads  (ghost) for a status that read the session fields: the
\*          timestamp of the session in the slot at each of its four reads
\* loc[t].g_host and loc[t].g_user hold the first two while status runs.
NoRet ==
    [op |-> NoneStr, ok |-> FALSE, err |-> NoneStr,
     connected |-> FALSE, host |-> NoneStr, username |-> NoneStr,
     connected_at |-> NoTime, info |-> NoInfo, hint |-> NoneStr,
     target |-> NoneStr, ios_type |-> NoneStr,
     was |-> NoConn, probe |-> NoneStr, cause |-> NoneStr, calls |-> <<>>,
     reads |-> <<>>]

\* SwitchManager.__init__
ManagerInit ==
    /\ connection = NoConn
    /\ host = NoneStr
    /\ username = NoneStr
    /\ connected_at = NoTime
    /\ device_info = NoInfo
    /\ lock = NoThread
    /\ pc = [t \in Threads |-> "idle"]
    /\ loc = [t \in Threads |-> NoLoc]
    /\ ret = NoRet
    /\ openChans = {}
    /\ clock = 0

Init ==
    /\ ManagerInit
    /\ topology = NoTopology
    /\ output = NoOutput
    /\ raw = NoRaw
    /\ validation = NoValidation

\* a _close_unlocked that drops the channel but keeps the session fields
close_unlocked_KeepFields ==
    IF connection # NoConn
    THEN /\ openChans' = openChans \ {connection}
         /\ connection' = NoConn
         /\ UNCHANGED <<host, username, connected_at, device_info>>
    ELSE UNCHANGED <<openChans, connection, host, username, connected_at,
                     device_info>>

\* a _close_unlocked that gives up when the transport fails to close
close_unlocked_GiveUp ==
    IF connection # NoConn
    THEN \/ /\ openChans' = openChans \ {connection}
            /\ connection' = NoConn
            /\ host' = NoneStr
            /\ username' = NoneStr
            /\ connected_at' = NoTime
            /\ device_info' = NoInfo
         \/ UNCHANGED <<openChans, connection, host, username, connected_at,
                        device_info>>
    ELSE UNCHANGED <<openChans, connection, host, username, connected_at,
                     device_info>>

\* _close_unlocked: best-effort disconnect of the live channel (whatever it
\* raises is swallowed), then every session field is cleared.  Nothing is
\* touched when there is no channel.
close_unlocked ==
    IF connection # NoConn
    THEN /\ openChans' = openChans \ {connection}
         /\ connection' = NoConn
         /\ host' = NoneStr
         /\ username' = NoneStr
         /\ connected_at' = NoTime
         /\ device_info' = NoInfo
    ELSE UNCHANGED <<openChans, connection, host, username, connected_at,
                     device_info>>

\* the transport calls _close_unlocked makes
CloseCalls == IF connection # NoConn THEN <<"disconnect">> ELSE <<>>

\* the handle ConnectHandler returns: a channel that is not open yet
NewChan(open) == CHOOSE c \in (1..MaxChannels) \ open :
                    \A d \in (1..MaxChannels) \ open : c <= d

\* ------------------------------------------------------------ connect
\* the except clauses of connect(): every exception becomes a RuntimeError
ConnectError(kind) ==
    CASE kind = "auth"    -> "auth_failed"
      [] kind = "timeout" -> "timed_out"
      [] OTHER            -> "conn_failed"

\* connect() leaves through an except clause after the transport call
\* `call` raised `kind`: the lock is released, the RuntimeError is raised;
\* the local `conn` is simply dropped.
ConnectFail(t, call, kind) ==
    /\ lock' = NoThread
    /\ pc' = [pc EXCEPT ![t] = "idle"]
    /\ loc' = [loc EXCEPT ![t] = NoLoc]
    /\ ret' = [NoRet EXCEPT !.op = "connect",
                            !.err = ConnectError(kind), !.cause = kind,
                            !.hint = loc[t].hint, !.target = loc[t].host,
                            !.was = loc[t].was,
                            !.calls = loc[t].calls \o call]

\* with self._lock: self._close_unlocked(); Phase 1 picks the device_type
ConnectBegin(t) ==
    /\ pc[t] = "idle"
    /\ lock = NoThread
    /\ clock < MaxClock
    /\ (1..MaxChannels) \ (openChans \ {connection}) # {}
    /\ \E h \in Hosts, u \in Users, hint \in Hints :
         loc' = [loc EXCEPT ![t] =
                   [NoLoc EXCEPT !.host = h, !.user = u, !.hint = hint,
                                 !.ntype = IF hint = "iosxe" THEN "cisco_xe"
                                           ELSE "cisco_ios",
                                 !.was = connection,
                                 !.calls = CloseCalls]]
    /\ lock' = t
    /\ close_unlocked
    /\ pc' = [pc EXCEPT ![t] = "open"]
    /\ ret' = NoRet
    /\ UNCHANGED <<clock,
                   compiler_vars>>

\* conn = ConnectHandler(**device); conn.enable() may follow, its failure
\* is ignored and it changes nothing here
ConnectOpen(t) ==
    /\ pc[t] = "open"
    /\ LET call == <<"open:" \o loc[t].ntype>>
       IN  \/ /\ openChans' = openChans \cup {NewChan(openChans)}
              /\ loc' = [loc EXCEPT ![t].conn = NewChan(openChans),
                                    ![t].calls = @ \o call]
              /\ pc' = [pc EXCEPT ![t] = "probe"]
              /\ ret' = NoRet
              /\ UNCHANGED lock
           \/ /\ \E kind \in ExcKinds : ConnectFail(t, call, kind)
              /\ UNCHANGED openChans
    /\ UNCHANGED <<session_vars, clock,
                   compiler_vars>>

\* a Phase 3 test that compares against the profile already in use
NeedsReopen_SameProfile(hint, detected, ntype) ==
    /\ hint = "auto"
    /\ detected.netmiko_type = "cisco_ios"
    /\ ntype = "cisco_ios"

\* a Phase 3 test that does not look at the hint
NeedsReopen_AnyHint(hint, detected, ntype) ==
    /\ detected.netmiko_type = "cisco_xe"
    /\ ntype = "cisco_ios"

\* the test that opens Phase 3
NeedsReopen(hint, detected, ntype) ==
    /\ hint = "auto"
    /\ detected.netmiko_type = "cisco_xe"
    /\ ntype = "cisco_ios"

\* Phase 2: show_ver = conn.send_command("show version");
\* detected = detect_ios_version(show_ver)
ConnectProbe(t) ==
    /\ pc[t] = "probe"
    /\ \/ LET detected == detect_ios_version(ShowVersion[loc[t].host])
          IN  /\ loc' = [loc EXCEPT ![t].detected = detected,
                                    ![t].calls = Append(@, "show version")]
              /\ pc' = [pc EXCEPT ![t] =
                          IF NeedsReopen(loc[t].hint, detected, loc[t].ntype)
                          THEN "reopen" ELSE "hostname"]
              /\ ret' = NoRet
              /\ UNCHANGED lock
       \/ \E kind \in ExcKinds : ConnectFail(t, <<"show version">>, kind)
    /\ UNCHANGED <<session_vars, openChans, clock,
                   compiler_vars>>

\* Phase 3: conn.disconnect() (errors ignored); device_type = "cisco_xe";
\* conn = ConnectHandler(**device)
ConnectReopen(t) ==
    /\ pc[t] = "reopen"
    /\ LET call == <<"disconnect", "open:cisco_xe">>
           rest == openChans \ {loc[t].conn}
       IN  \/ /\ openChans' = rest \cup {NewChan(rest)}
              /\ loc' = [loc EXCEPT ![t].conn = NewChan(rest),
                                    ![t].ntype = "cisco_xe",
                                    ![t].calls = @ \o call]
              /\ pc' = [pc EXCEPT ![t] = "reprobe"]
              /\ ret' = NoRet
              /\ UNCHANGED lock
           \/ /\ openChans' = openChans \ {loc[t].conn}
              /\ \E kind \in ExcKinds : ConnectFail(t, call, kind)
    /\ UNCHANGED <<session_vars, clock,
                   compiler_vars>>

\* Phase 3, end: show version again on the new connection
ConnectReprobe(t) ==
    /\ pc[t] = "reprobe"
    /\ \/ /\ loc' = [loc EXCEPT ![t].detected =
                        detect_ios_version(ShowVersion[loc[t].host]),
                                ![t].calls = Append(@, "show version")]
          /\ pc' = [pc EXCEPT ![t] = "hostname"]
          /\ ret' = NoRet
          /\ UNCHANGED lock
       \/ \E kind \in ExcKinds : ConnectFail(t, <<"show version">>, kind)
    /\ UNCHANGED <<session_vars, openChans, clock,
                   compiler_vars>>

\* Phase 4: hostname_raw = conn.send_command("show running-config | include hostname")
ConnectHostname(t) ==
    /\ pc[t] = "hostname"
    /\ \/ /\ loc' = [loc EXCEPT ![t].hostname =
                        HostnameOf(ShowHostname[loc[t].host]),
                                ![t].calls = Append(@, "show hostname")]
          /\ pc' = [pc EXCEPT ![t] = "uptime"]
          /\ ret' = NoRet
          /\ UNCHANGED lock
       \/ \E kind \in ExcKinds : ConnectFail(t, <<"show hostname">>, kind)
    /\ UNCHANGED <<session_vars, openChans, clock,
                   compiler_vars>>

\* Phase 4: uptime_raw = conn.send_command("show version | include uptime");
\* then the session fields are assigned and the descriptor is returned
ConnectUptime(t) ==
    /\ pc[t] = "uptime"
    /\ \/ LET info == [ios_type     |-> loc[t].detected.ios_type,
                       netmiko_type |-> loc[t].detected.netmiko_type,
                       hostname     |-> loc[t].hostname,
                       uptime       |-> "up"]
              now  == clock + 1
          IN  /\ connection' = loc[t].conn
              /\ host' = loc[t].host
              /\ username' = loc[t].user
              /\ connected_at' = now
              /\ device_info' = info
              /\ clock' = now
              /\ ret' = [NoRet EXCEPT !.op = "connect", !.ok = TRUE,
                            !.host = loc[t].host, !.username = loc[t].user,
                            !.connected_at = now, !.info = info,
                            !.hint = loc[t].hint, !.target = loc[t].host,
                            !.was = loc[t].was,
                            !.calls = Append(loc[t].calls, "show uptime")]
              /\ lock' = NoThread
              /\ pc' = [pc EXCEPT ![t] = "idle"]
              /\ loc' = [loc EXCEPT ![t] = NoLoc]
       \/ /\ \E kind \in ExcKinds : ConnectFail(t, <<"show uptime">>, kind)
          /\ UNCHANGED <<session_vars, clock>>
    /\ UNCHANGED <<openChans, compiler_vars>>

\* --------------------------------------------------------- disconnect
\* outcomes of self._connection.disconnect() inside _close_unlocked
CloseOutcomes == IF connection = NoConn THEN {NoneStr}
                 ELSE {"ok"} \cup ExcKinds

\* disconnect(): with self._lock: self._close_unlocked()
Disconnect(t) ==
    /\ pc[t] = "idle"
    /\ lock = NoThread
    /\ close_unlocked
    /\ \E out \in CloseOutcomes :
         ret' = [NoRet EXCEPT !.op = "disconnect", !.ok = TRUE,
                              !.was = connection, !.calls = CloseCalls,
                              !.cause = IF out \in ExcKinds THEN out
                                        ELSE NoneStr]
    /\ UNCHANGED <<lock, pc, loc, clock,
                   compiler_vars>>

\* ------------------------------------------------------ liveness/status
\* outcomes of a transport call: its value, or the class of what it raises
AliveOutcomes == {"true", "false"} \cup ExcKinds
CallOutcomes  == {"ok"} \cup ExcKinds

\* the value is_connected() computes under the lock when the transport's
\* is_alive() ends with outcome `alive`
is_connected(alive) ==
    IF connection = NoConn THEN FALSE
    ELSE alive = "true"          \* except Exception: return False

\* is_alive() is only reached with a channel in the slot
ProbeOutcomes == IF connection = NoConn THEN {NoneStr} ELSE AliveOutcomes
ProbeCalls    == IF connection = NoConn THEN <<>> ELSE <<"is_alive">>

\* is_connected() called on its own (the deploy and verify routes do)
IsConnected(t) ==
    /\ pc[t] = "idle"
    /\ lock = NoThread
    /\ \E alive \in ProbeOutcomes :
         ret' = [NoRet EXCEPT !.op = "is_connected", !.ok = TRUE,
                              !.connected = is_connected(alive),
                              !.was = connection, !.probe = alive,
                              !.calls = ProbeCalls]
    /\ UNCHANGED <<session_vars, lock, pc, loc, openChans, clock,
                   compiler_vars>>

\* get_status(), first line: connected = self.is_connected().  When it is
\* False no field is read and the all-None dict is returned at once.
StatusCheck(t) ==
    /\ pc[t] = "idle"
    /\ lock = NoThread
    /\ \E alive \in ProbeOutcomes :
         IF is_connected(alive)
         THEN /\ pc' = [pc EXCEPT ![t] = "s_host"]
              /\ loc' = [loc EXCEPT ![t].was = connection]
              /\ ret' = NoRet
         ELSE /\ pc' = pc
              /\ loc' = loc
              /\ ret' = [NoRet EXCEPT !.op = "status", !.ok = TRUE,
                                      !.was = connection, !.probe = alive,
                                      !.calls = ProbeCalls]
    /\ UNCHANGED <<session_vars, lock, openChans, clock,
                   compiler_vars>>

\* "host": self._host  (read without the lock)
StatusReadHost(t) ==
    /\ pc[t] = "s_host"
    /\ loc' = [loc EXCEPT ![t].s_host = host, ![t].g_host = connected_at]
    /\ pc' = [pc EXCEPT ![t] = "s_user"]
    /\ ret' = NoRet
    /\ UNCHANGED <<session_vars, lock, openChans, clock,
                   compiler_vars>>

\* "username": self._username
StatusReadUser(t) ==
    /\ pc[t] = "s_user"
    /\ loc' = [loc EXCEPT ![t].s_user = username, ![t].g_user = connected_at]
    /\ pc' = [pc EXCEPT ![t] = "s_at"]
    /\ ret' = NoRet
    /\ UNCHANGED <<session_vars, lock, openChans, clock,
                   compiler_vars>>

\* "connected_at": self._connected_at
StatusReadAt(t) ==
    /\ pc[t] = "s_at"
    /\ loc' = [loc EXCEPT ![t].s_at = connected_at]
    /\ pc' = [pc EXCEPT ![t] = "s_info"]
    /\ ret' = NoRet
    /\ UNCHANGED <<session_vars, lock, openChans, clock,
                   compiler_vars>>

\* **self._device_info, and the dict is returned
StatusReadInfo(t) ==
    /\ pc[t] = "s_info"
    /\ ret' = [NoRet EXCEPT !.op = "status", !.ok = TRUE,
                  !.connected = TRUE, !.host = loc[t].s_host,
                  !.username = loc[t].s_user, !.connected_at = loc[t].s_at,
                  !.info = device_info, !.was = loc[t].was,
                  !.probe = "true", !.calls = <<"is_alive">>,
                  !.reads = <<loc[t].g_host, loc[t].g_user, loc[t].s_at,
                              connected_at>>]
    /\ loc' = [loc EXCEPT ![t] = NoLoc]
    /\ pc' = [pc EXCEPT ![t] = "idle"]
    /\ UNCHANGED <<session_vars, lock, openChans, clock,
                   compiler_vars>>

\* -------------------------------------------------------- get_ios_type
\* self._device_info.get("ios_type") if self._connection else None: the
\* condition first; no lock is taken.  With an empty slot None is returned.
GetIosTypeCheck(t) ==
    /\ pc[t] = "idle"
    /\ IF connection = NoConn
       THEN /\ ret' = [NoRet EXCEPT !.op = "get_ios_type", !.ok = TRUE]
            /\ UNCHANGED <<pc, loc>>
       ELSE /\ pc' = [pc EXCEPT ![t] = "g_type"]
            /\ loc' = [loc EXCEPT ![t].was = connection]
            /\ ret' = NoRet
    /\ UNCHANGED <<session_vars, lock, openChans, clock,
                   compiler_vars>>

\* then self._device_info.get("ios_type")
GetIosTypeRead(t) ==
    /\ pc[t] = "g_type"
    /\ ret' = [NoRet EXCEPT !.op = "get_ios_type", !.ok = TRUE,
                  !.was = loc[t].was,
                  !.ios_type = IF "ios_type" \in DOMAIN device_info
                               THEN device_info.ios_type ELSE NoneStr]
    /\ loc' = [loc EXCEPT ![t] = NoLoc]
    /\ pc' = [pc EXCEPT ![t] = "idle"]
    /\ UNCHANGED <<session_vars, lock, openChans, clock,
                   compiler_vars>>

\* ------------------------------------------------------------- execute
\* _ensure_connected with is_alive() ending in `alive`: what it raises
\* ("ok" when it returns) and whether it ran _close_unlocked.
\* is_alive() returning False, or raising anything but a RuntimeError, closes
\* the session and raises "Connection lost"; a RuntimeError raised by
\* is_alive() itself is caught by `except RuntimeError: raise` and leaves
\* as it is, with the session untouched.
ensure_connected(alive) ==
    IF connection = NoConn
    THEN [err |-> "not_connected", closed |-> FALSE, calls |-> <<>>]
    ELSE IF alive = "true"
    THEN [err |-> "ok", closed |-> FALSE, calls |-> <<"is_alive">>]
    ELSE IF alive = "runtime"
    THEN [err |-> "transport_runtime", closed |-> FALSE,
          calls |-> <<"is_alive">>]
    ELSE [err |-> "connection_lost", closed |-> TRUE,
          calls |-> <<"is_alive", "disconnect">>]

\* the outcomes of the channel operation, which runs only when
\* _ensure_connected returned
OpOutcomes(alive) ==
    IF connection # NoConn /\ alive = "true" THEN CallOutcomes ELSE {NoneStr}

\* the body shared by send_config, send_command and save_config:
\* _ensure_connected(), then the channel operation `method` ending in `out`;
\* whatever the operation raises becomes RuntimeError(failure)
Execute(t, op, method, failure) ==
    /\ pc[t] = "idle"
    /\ lock = NoThread
    /\ \E alive \in ProbeOutcomes : \E out \in OpOutcomes(alive) :
         LET e == ensure_connected(alive)
             r == [NoRet EXCEPT !.op = op, !.was = connection,
                                !.probe = alive]
         IN  /\ ret' = IF e.err # "ok"
                       THEN [r EXCEPT !.err = e.err, !.calls = e.calls,
                                !.cause = IF alive \in ExcKinds THEN alive
                                          ELSE NoneStr]
                       ELSE IF out = "ok"
                       THEN [r EXCEPT !.ok = TRUE,
                                      !.calls = Append(e.calls, method)]
                       ELSE [r EXCEPT !.err = failure, !.cause = out,
                                      !.calls = Append(e.calls, method)]
             /\ IF e.closed THEN close_unlocked
                ELSE UNCHANGED <<session_vars, openChans>>
    /\ UNCHANGED <<lock, pc, loc, clock,
                   compiler_vars>>

\* send_config(commands)
SendConfig(t) ==
    Execute(t, "send_config", "send_config_set", "config_failed")

\* send_command(command)
SendCommand(t) ==
    Execute(t, "send_command", "send_command", "command_failed")

\* save_config()
SaveConfig(t) ==
    Execute(t, "save_config", "save_config", "save_failed")

\* ---------------------------------------------------------------- Next
Next ==
    \E t \in Threads :
        \/ ConnectBegin(t)
        \/ ConnectOpen(t)
        \/ ConnectProbe(t)
        \/ ConnectReopen(t)
        \/ ConnectReprobe(t)
        \/ ConnectHostname(t)
        \/ ConnectUptime(t)
        \/ Disconnect(t)
        \/ IsConnected(t)
        \/ StatusCheck(t)
        \/ StatusReadHost(t)
        \/ StatusReadUser(t)
        \/ StatusReadAt(t)
        \/ StatusReadInfo(t)
        \/ GetIosTypeCheck(t)
        \/ GetIosTypeRead(t)
        \/ SendConfig(t)
        \/ SendCommand(t)
        \/ SaveConfig(t)

Spec == Init /\ [][Next]_vars

\* ------------------------------------------------ the generator alone
\* a generator is called on the topology at hand
Called(op) ==
    /\ topology # NoTopology
    /\ op \notin output.ran

Raised(op) ==
    [output EXCEPT !.ran = @ \cup {op}, !.raised = @ \cup {op}]

\* generate_commands(topology)
GenerateCommands ==
    /\ Called("apply")
    /\ output' = IF KeyError(topology) THEN Raised("apply")
                 ELSE [output EXCEPT !.ran = @ \cup {"apply"},
                                     !.apply = generate_commands(topology)]
    /\ UNCHANGED <<topology, raw, validation, manager_vars>>

\* generate_verify_commands(topology)
GenerateVerify ==
    /\ Called("verify")
    /\ output' = IF KeyError(topology) THEN Raised("verify")
                 ELSE [output EXCEPT !.ran = @ \cup {"verify"},
                          !.verify = generate_verify_commands(topology)]
    /\ UNCHANGED <<topology, raw, validation, manager_vars>>

\* generate_rollback_commands(topology)
GenerateRollback ==
    /\ Called("rollback")
    /\ output' = IF KeyError(topology) THEN Raised("rollback")
                 ELSE [output EXCEPT !.ran = @ \cup {"rollback"},
                          !.rollback = generate_rollback_commands(topology)]
    /\ UNCHANGED <<topology, raw, validation, manager_vars>>

\* generate_summary(topology)
GenerateSummary ==
    /\ Called("summary")
    /\ output' = IF KeyError(topology) THEN Raised("summary")
                 ELSE [output EXCEPT !.ran = @ \cup {"summary"},
                          !.summary = generate_summary(topology)]
    /\ UNCHANGED <<topology, raw, validation, manager_vars>>

\* api_save_topology: the posted document is validated and, when no error
\* is found, saved as the active topology; a raise leaves it unsaved
SaveTopology ==
    /\ raw # NoRaw
    /\ ~validation.done
    /\ LET r == validate_topology_data(raw)
       IN  /\ validation' = [done |-> TRUE, raised |-> r.raised,
                             errors |-> r.errors, posted |-> raw]
           /\ raw' = r.data
           /\ topology' = IF ~r.raised /\ r.errors = <<>> THEN stored(r.data)
                          ELSE topology
    /\ UNCHANGED <<output, manager_vars>>

CompilerInit ==
    /\ ManagerInit
    /\ topology \in Topologies
    /\ output = NoOutput
    /\ raw = NoRaw
    /\ validation = NoValidation

CompilerNext ==
    \/ GenerateCommands
    \/ GenerateVerify
    \/ GenerateRollback
    \/ GenerateSummary

CompilerSpec == CompilerInit /\ [][CompilerNext]_vars

\* ------------------------------- validation, then the generators
ValidatorInit ==
    /\ ManagerInit
    /\ raw \in RawTopologies
    /\ validation = NoValidation
    /\ topology = NoTopology
    /\ output = NoOutput

ValidatorNext ==
    \/ SaveTopology
    \/ GenerateCommands
    \/ GenerateVerify
    \/ GenerateRollback
    \/ GenerateSummary

ValidatorSpec == ValidatorInit /\ [][ValidatorNext]_vars


\* =================================================================
\* Properties of the session manager
\* =================================================================
ConnectStages == {"open", "probe", "reopen", "reprobe", "hostname", "uptime"}
SendOps == {"send_config", "send_command", "save_config"}

\* no session: the slot and every session field are cleared
Cleared ==
    /\ connection = NoConn
    /\ host = NoneStr
    /\ username = NoneStr
    /\ connected_at = NoTime
    /\ device_info = NoInfo

\* the transport calls of a returned connect() after the teardown of the
\* previous session
AfterTeardown(r) == IF r.was # NoConn THEN Tail(r.calls) ELSE r.calls

\* C1: connect() with hint "auto" against a device whose show version
\* classifies as IOS-XE opens with cisco_ios, probes, disconnects, opens with
\* cisco_xe and probes again, all while the slot is still empty; the
\* descriptor returned and stored is the IOS-XE one.
C1_AutoDetectReopens ==
    /\ \A t \in Threads : pc[t] \in ConnectStages => connection = NoConn
    /\ ( /\ ret.op = "connect"
         /\ ret.ok
         /\ ret.hint = "auto"
         /\ detect_ios_version(ShowVersion[ret.host]).ios_type = "iosxe" )
       => /\ AfterTeardown(ret) =
                <<"open:cisco_ios", "show version", "disconnect",
                  "open:cisco_xe", "show version", "show hostname",
                  "show uptime">>
          /\ ret.info.ios_type = "iosxe"
          /\ ret.info.netmiko_type = "cisco_xe"
          /\ device_info = ret.info
          /\ connection # NoConn

C1_Witness ==
    /\ ret.op = "connect"
    /\ ret.ok
    /\ ret.hint = "auto"
    /\ ret.host = "h2"
    /\ device_info.ios_type = "iosxe"

\* C2: send_config, send_command and save_config check liveness first:
\* with an empty slot they raise "not connected" and change nothing; with a
\* channel whose is_alive() returns False or raises they send nothing, raise
\* "connection lost" and the session is cleared when the error leaves.
C2_LivenessCheckedFirst ==
    ret.op \in SendOps =>
        /\ ret.was = NoConn =>
              ret.err = "not_connected" /\ ret.calls = <<>> /\ Cleared
        /\ (ret.was # NoConn /\ ret.probe # "true") =>
              /\ ret.err = "connection_lost"
              /\ \A i \in 1..Len(ret.calls) :
                    ret.calls[i] \in {"is_alive", "disconnect"}
              /\ Cleared

\* C3: a connect() that fails at any stage leaves no session and none of
\* the attempt's host, username, timestamp or platform, also when it was
\* issued on top of a live session.
C3_FailedConnectLeavesNothing ==
    (ret.op = "connect" /\ ~ret.ok) => Cleared

C3_Witness ==
    /\ ret.op = "connect"
    /\ ~ret.ok
    /\ ret.was # NoConn
    /\ ret.calls[Len(ret.calls)] = "show uptime"

\* C4: when disconnect() returns the slot and every session field are
\* cleared, also when the transport raised while closing; and a status()
\* taken with an empty slot says connected=False and carries no host,
\* username, timestamp or platform.
C4_DisconnectClears ==
    /\ ret.op = "disconnect" => Cleared
    /\ (ret.op = "status" /\ ret.was = NoConn) =>
          /\ ~ret.connected
          /\ ret.host = NoneStr
          /\ ret.username = NoneStr
          /\ ret.connected_at = NoTime
          /\ ret.info = NoInfo

C4_Witness ==
    /\ ret.op = "disconnect"
    /\ ret.was # NoConn
    /\ ret.cause = "timeout"

\* C5: a status() result with connected=True carries host, username,
\* timestamp and platform that are all present and are those of one and the
\* same session.
C5_StatusSnapshotConsistent ==
    (ret.op = "status" /\ ret.connected) =>
        /\ ret.host # NoneStr
        /\ ret.username # NoneStr
        /\ ret.connected_at # NoTime
        /\ ret.info # NoInfo
        /\ \A i \in 1..4 : ret.reads[i] = ret.connected_at

\* C6: at most one channel opened by the manager is open at any time, and
\* a connect() that failed has left no channel open.
C6_AtMostOneChannel ==
    /\ Cardinality(openChans) <= 1
    /\ (ret.op = "connect" /\ ~ret.ok) => openChans = {}

\* C7: when a channel operation of connect, send_config, send_command or
\* save_config times out, the call fails with the channel closed and the
\* session cleared.
C7_TimeoutTearsDown ==
    (ret.op \in SendOps \cup {"connect"} /\ ret.cause = "timeout") =>
        /\ ~ret.ok
        /\ Cleared
        /\ openChans = {}

\* C8: a connect() that got as far as the two informational commands
\* succeeds whatever they do: the session is Connected with host, username,
\* timestamp and platform recorded.
C8_InfoCommandsTolerated ==
    ( /\ ret.op = "connect"
      /\ ret.calls[Len(ret.calls)] \in {"show hostname", "show uptime"} )
    => /\ ret.ok
       /\ connection # NoConn
       /\ host = ret.host
       /\ username = ret.username
       /\ connected_at # NoTime
       /\ device_info # NoInfo

\* C17: when is_connected() or get_status() has found the channel of a
\* Connected session dead (is_alive() returned False or raised), the
\* session is cleared by the time the call returns: the slot is empty and
\* host, username, timestamp and platform are gone.
C17_DeadProbeClears ==
    ( /\ ret.op \in {"is_connected", "status"}
      /\ ret.was # NoConn
      /\ ret.probe # "true" )
    => /\ ~ret.connected
       /\ Cleared

\* positions of the lines of cmds that belong to the set L
Positions(cmds, L) == {i \in 1..Len(cmds) : cmds[i] \in L}

\* how many times the line occurs in cmds
Count(cmds, line) == Cardinality(Positions(cmds, {line}))

\* the transport profiles a connect() opened, or tried to open, in order
Opens(calls) ==
    SelectSeq(calls, LAMBDA c : c \in {"open:cisco_ios", "open:cisco_xe"})

\* C18: a connect() that returned or raised has opened the transport once,
\* with the profile of its hint, when the hint is explicit, whatever the
\* probe said; with hint "auto" it has opened cisco_ios and then at most
\* cisco_xe, the latter only after a probe of the first channel that
\* classified the device as IOS-XE; no profile is opened twice, and a call
\* that failed made no transport call after the one that failed.
C18_NoRetry ==
    ret.op = "connect" =>
        LET calls == AfterTeardown(ret)
            opens == Opens(calls)
        IN  /\ ret.hint = "classic" => opens = <<"open:cisco_ios">>
            /\ ret.hint = "iosxe" => opens = <<"open:cisco_xe">>
            /\ ret.hint = "auto" =>
                  \/ opens = <<"open:cisco_ios">>
                  \/ /\ opens = <<"open:cisco_ios", "open:cisco_xe">>
                     /\ SubSeq(calls, 1, 4) =
                           <<"open:cisco_ios", "show version", "disconnect",
                             "open:cisco_xe">>
                     /\ detect_ios_version(ShowVersion[ret.target]).ios_type
                           = "iosxe"
            /\ ~ret.ok =>
                  /\ ret.err \in {"auth_failed", "timed_out", "conn_failed"}
                  /\ Len(calls) <= 7
                  /\ Count(calls, "show version") <= Len(opens)

\* an explicit classic hint against the IOS-XE device: one open, no re-open
C18_Witness ==
    /\ ret.op = "connect"
    /\ ret.ok
    /\ ret.hint = "classic"
    /\ ret.target = "h2"
    /\ Opens(ret.calls) = <<"open:cisco_ios">>
    /\ device_info.ios_type = "iosxe"

\* =================================================================
\* Properties of the command generator
\* =================================================================
VlanLines     == {"ip dhcp snooping vlan " \o ToString(v) : v \in 0..4094}
TrackingLines == {"device-tracking tracking", "ip device tracking"}

\* C9: in the apply list "ip dhcp snooping" comes before every per-VLAN
\* snooping line, every per-VLAN snooping line before the device-tracking
\* line; there is exactly one device-tracking line, the IOS-XE form iff the
\* topology's ios_version normalizes to iosxe.
C9_GlobalOrder ==
    "apply" \in output.ran =>
        LET cmds  == output.apply
            glob  == Positions(cmds, {"ip dhcp snooping"})
            vlan  == Positions(cmds, VlanLines)
            track == Positions(cmds, TrackingLines)
        IN  /\ glob # {}
            /\ \A g \in glob, v \in vlan : g < v
            /\ \A v \in vlan, k \in track : v < k
            /\ Cardinality(track) = 1
            /\ \A k \in track :
                  cmds[k] = "device-tracking tracking"
                     <=> normalize_ios_version(ios_version_of(topology)) = "iosxe"

C9_Witness ==
    /\ "apply" \in output.ran
    /\ Cardinality(Positions(output.apply, VlanLines)) = 2
    /\ ios_version_of(topology) = <<" ","I","O","S","-","X","E">>
    /\ "device-tracking tracking" \in
          {output.apply[i] : i \in 1..Len(output.apply)}

\* the per-port block the claim spells out for a channel
ExpectedBlock(ch) ==
    <<"interface " \o ch.port,
      "  description " \o (IF ch.description = Absent THEN ch.port
                           ELSE ch.description),
      "  switchport mode access",
      "  switchport access vlan " \o ToString(ch.vlan),
      "  switchport port-security maximum "
          \o ToString(1 + Len(ch.devices)),
      "  switchport port-security violation restrict",
      "  switchport port-security",
      "  ip verify source port-security",
      "  spanning-tree portfast",
      "  spanning-tree bpduguard enable",
      "  no shutdown">>

\* every block has as many lines
BlockLen == Len(ExpectedBlock(CHOOSE ch \in ChannelSet : TRUE))

\* C10: the apply list ends with one block per channel, in topology order,
\* each the interface line followed by description, mode access, access
\* vlan, maximum 1 + len(devices), violation restrict, port-security,
\* IP source guard, PortFast, BPDU guard, no shutdown, in this order.
C10_PortBlocks ==
    "apply" \in output.ran =>
        LET cmds == output.apply
            n    == Len(topology.channels)
            base == Len(cmds) - BlockLen * n
        IN  /\ base >= 0
            /\ \A k \in 1..n :
                  SubSeq(cmds, base + BlockLen * (k - 1) + 1,
                         base + BlockLen * k)
                     = ExpectedBlock(topology.channels[k])
            /\ \A i \in 1..base :
                  cmds[i] \notin {"  switchport port-security",
                                  "  ip verify source port-security",
                                  "  switchport mode access"}

C10_Witness ==
    /\ "apply" \in output.ran
    /\ Len(topology.channels) = 2
    /\ Len(topology.channels[1].devices) = 1
    /\ Len(topology.channels[2].devices) = 0
    /\ "  switchport port-security maximum 2" \in
          {output.apply[i] : i \in 1..Len(output.apply)}

\* the bindings (mac, vlan, ip, port) that can be made of the values the
\* topologies hold, and the line that sets, or removes, each
SampleBindings ==
    UNION {{ch.io_block} \cup {ch.devices[j] : j \in 1..Len(ch.devices)} :
              ch \in ChannelSet}
BindingTuples ==
    {[mac |-> m.mac, vlan |-> v, ip |-> a.ip, port |-> f.port] :
        m \in SampleBindings, v \in Vlans, a \in SampleBindings,
        f \in Interfaces}

ApplyText(b) ==
    "ip source binding " \o b.mac \o " vlan " \o ToString(b.vlan) \o " "
        \o b.ip \o " interface " \o b.port
RollbackText(b) == "no " \o ApplyText(b)

ApplyBindingLines    == {ApplyText(b) : b \in BindingTuples}
RollbackBindingLines == {RollbackText(b) : b \in BindingTuples}

\* every I/O block and every device of the topology has its ip and its mac
AllComplete(t) ==
    \A i \in 1..Len(t.channels) :
        /\ Complete(t.channels[i].io_block)
        /\ \A j \in 1..Len(t.channels[i].devices) :
              Complete(t.channels[i].devices[j])

\* C11: for a topology whose bindings are all complete, the rollback list
\* negates every binding (mac, vlan, ip, port) as many times as the apply
\* list sets it, and both lists hold the same number of binding lines.
C11_RollbackNegatesApplied ==
    (AllComplete(topology) /\ {"apply", "rollback"} \subseteq output.ran) =>
        /\ \A b \in BindingTuples :
              Count(output.apply, ApplyText(b))
                 = Count(output.rollback, RollbackText(b))
        /\ Cardinality(Positions(output.apply, ApplyBindingLines))
              = Cardinality(Positions(output.rollback, RollbackBindingLines))

\* two channels, the first with a device: the apply list and the rollback
\* list name the three or four bindings in different orders
C11_Witness ==
    /\ AllComplete(topology)
    /\ {"apply", "rollback"} \subseteq output.ran
    /\ Len(topology.channels) = 2
    /\ topology.channels[1].devices # <<>>
    /\ Cardinality(Positions(output.rollback, RollbackBindingLines)) >= 3
    /\ SelectSeq(output.rollback, LAMBDA c : c \in RollbackBindingLines)
          # [i \in 1..Cardinality(Positions(output.apply, ApplyBindingLines))
               |-> "no " \o SelectSeq(output.apply,
                                LAMBDA c : c \in ApplyBindingLines)[i]]

NoVlanLines == {"no ip dhcp snooping vlan " \o ToString(v) : v \in 0..4094}

\* the VLANs of the channels of a topology
ChannelVlans(t) == {t.channels[i].vlan : i \in 1..Len(t.channels)}

\* the one list that holds each element of S once, in ascending order
Ascending(S) ==
    CHOOSE q \in [1..Cardinality(S) -> S] :
        \A i, j \in 1..Cardinality(S) : i < j => q[i] < q[j]

\* C12: the per-VLAN snooping lines of the apply list, the negated VLAN
\* lines of the rollback list and the vlans of the summary all name the
\* VLANs of the channels, each once, in strictly ascending order.
C12_SameVlanList ==
    LET vlans == Ascending(ChannelVlans(topology))
    IN  /\ "apply" \in output.ran =>
              SelectSeq(output.apply, LAMBDA c : c \in VlanLines)
                 = [i \in 1..Len(vlans) |->
                       "ip dhcp snooping vlan " \o ToString(vlans[i])]
        /\ "rollback" \in output.ran =>
              SelectSeq(output.rollback, LAMBDA c : c \in NoVlanLines)
                 = [i \in 1..Len(vlans) |->
                       "no ip dhcp snooping vlan " \o ToString(vlans[i])]
        /\ "summary" \in output.ran => output.summary.vlans = vlans

\* the channels name VLAN 20 before VLAN 10
C12_Witness ==
    /\ {"apply", "rollback", "summary"} \subseteq output.ran
    /\ Len(topology.channels) = 2
    /\ topology.channels[1].vlan = 20
    /\ topology.channels[2].vlan = 10
    /\ output.summary.vlans = <<10, 20>>
    /\ Cardinality(Positions(output.rollback, NoVlanLines)) = 2

\* the interface lines of the uplinks of topology t
UplinkLines(t) == {"interface " \o t.uplinks[i] : i \in 1..Len(t.uplinks)}

\* c is a line of the global phase, for the uplinks of topology t
IsGlobalLine(c, t) ==
    \/ c \in {"ip dhcp snooping", "no ip dhcp snooping information option",
              "  ip dhcp snooping trust"}
    \/ c \in TrackingLines
    \/ c \in UplinkLines(t)
    \/ c \in VlanLines

\* the binding of b on channel ch, as a (mac, vlan, ip, port) tuple
TupleOf(b, ch) ==
    [mac |-> b.mac, vlan |-> ch.vlan, ip |-> b.ip, port |-> ch.port]

\* the binding lines the I/O blocks call for, channels in topology order
IoBindingLines(t) ==
    LET chs == SelectSeq(t.channels, LAMBDA ch : Complete(ch.io_block))
    IN  [k \in 1..Len(chs) |-> ApplyText(TupleOf(chs[k].io_block, chs[k]))]

\* the binding lines the devices call for, channels in topology order and
\* the devices of a channel in their order
RECURSIVE DeviceBindingLines(_)
DeviceBindingLines(channels) ==
    IF channels = <<>> THEN <<>>
    ELSE LET ch   == Head(channels)
             devs == SelectSeq(ch.devices, LAMBDA d : Complete(d))
         IN  [k \in 1..Len(devs) |-> ApplyText(TupleOf(devs[k], ch))]
             \o DeviceBindingLines(Tail(channels))

\* C13: in the apply list every line of the global phase comes before
\* every binding line and every binding line before every per-port line;
\* the binding lines are those of the I/O blocks (channels in topology
\* order) followed by those of the devices (channels in topology order,
\* devices in order); the uplinks are trusted in topology order, each
\* interface line followed by its trust line.
C13_PhasesInOrder ==
    "apply" \in output.ran =>
        LET cmds == output.apply
            U    == UplinkLines(topology)
            G    == {i \in 1..Len(cmds) : IsGlobalLine(cmds[i], topology)}
            B    == Positions(cmds, ApplyBindingLines)
            P    == (1..Len(cmds)) \ (G \cup B)
        IN  /\ \A g \in G, b \in B : g < b
            /\ \A b \in B, p \in P : b < p
            /\ \A g \in G, p \in P : g < p
            /\ SelectSeq(cmds, LAMBDA c : c \in ApplyBindingLines)
                  = IoBindingLines(topology)
                       \o DeviceBindingLines(topology.channels)
            /\ SelectSeq(cmds, LAMBDA c : c \in U)
                  = [i \in 1..Len(topology.uplinks) |->
                        "interface " \o topology.uplinks[i]]
            /\ \A g \in Positions(cmds, U) :
                  g < Len(cmds) /\ cmds[g + 1] = "  ip dhcp snooping trust"

\* two uplinks and two channels; the first channel has a device and the
\* second an I/O block, whose binding comes before the device's
C13_Witness ==
    /\ "apply" \in output.ran
    /\ Len(topology.uplinks) = 2
    /\ Len(topology.channels) = 2
    /\ Complete(topology.channels[1].io_block)
    /\ Len(topology.channels[1].devices) = 1
    /\ Complete(topology.channels[2].io_block)
    /\ topology.channels[1].port # topology.channels[2].port
    /\ Cardinality(Positions(output.apply, ApplyBindingLines)) >= 3

\* the scenario: Classic, no uplinks, one channel with its I/O block and
\* one device
Scenario ==
    [ios_version |-> <<"c","l","a","s","s","i","c">>,
     uplinks     |-> <<>>,
     channels    |->
       <<[port |-> "Gi1/0/1", vlan |-> 10, description |-> Absent,
          io_block |-> [ip |-> "10.0.0.1", mac |-> "aabb.ccdd.eeff"],
          devices  |-> <<[ip |-> "10.0.0.2", mac |-> "1122.3344.5566"]>>]>>]

ScenarioIoLine ==
    "ip source binding aabb.ccdd.eeff vlan 10 10.0.0.1 interface Gi1/0/1"
ScenarioDeviceLine ==
    "ip source binding 1122.3344.5566 vlan 10 10.0.0.2 interface Gi1/0/1"

\* C14 as stated: for the scenario the apply list begins with
\* "ip dhcp snooping"; "ip dhcp snooping vlan 10", "ip device tracking",
\* the I/O block's binding line and the device's follow in this order,
\* they are the only binding lines, and the list ends with the interface
\* block for Gi1/0/1, of seven to nine lines (with or without counting the
\* interface line), one of them "switchport port-security maximum 2".
C14_ScenarioAsStated ==
    (topology = Scenario /\ "apply" \in output.ran) =>
        LET cmds == output.apply
        IN  /\ cmds[1] = "ip dhcp snooping"
            /\ \E a, b, c, d, i \in 1..Len(cmds) :
                  /\ 1 < a /\ a < b /\ b < c /\ c < d /\ d < i
                  /\ cmds[a] = "ip dhcp snooping vlan 10"
                  /\ cmds[b] = "ip device tracking"
                  /\ cmds[c] = ScenarioIoLine
                  /\ cmds[d] = ScenarioDeviceLine
                  /\ cmds[i] = "interface Gi1/0/1"
                  /\ \/ Len(cmds) - i + 1 \in 7..9
                     \/ Len(cmds) - i \in 7..9
            /\ Cardinality(Positions(cmds, ApplyBindingLines)) = 2
            /\ Count(cmds, "  switchport port-security maximum 2") = 1

\* C14, amended: for the scenario the apply list is "ip dhcp snooping",
\* "no ip dhcp snooping information option", "ip dhcp snooping vlan 10",
\* "ip device tracking", the binding line of the I/O block, the binding
\* line of the device, and the interface block for Gi1/0/1 of eleven
\* lines: the interface line and the ten commands under it, among them
\* "switchport port-security maximum 2".
C14_ScenarioCommands ==
    (topology = Scenario /\ "apply" \in output.ran) =>
        output.apply =
            <<"ip dhcp snooping",
              "no ip dhcp snooping information option",
              "ip dhcp snooping vlan 10",
              "ip device tracking",
              ScenarioIoLine,
              ScenarioDeviceLine,
              "interface Gi1/0/1",
              "  description Gi1/0/1",
              "  switchport mode access",
              "  switchport access vlan 10",
              "  switchport port-security maximum 2",
              "  switchport port-security violation restrict",
              "  switchport port-security",
              "  ip verify source port-security",
              "  spanning-tree portfast",
              "  spanning-tree bpduguard enable",
              "  no shutdown">>

C14_Witness ==
    /\ topology = Scenario
    /\ "apply" \in output.ran
    /\ Len(output.apply) > 0

\* =================================================================
\* Properties of the validator
\* =================================================================
\* the rules a binding of the posted document violates: an ip that is
\* given and malformed, a mac that is given and not a 48-bit address
BindingViolations(b) ==
    (IF b.ip # <<>> /\ ~validate_ip(b.ip) THEN 1 ELSE 0)
    + (IF b.mac # <<>> /\ ~validate_mac(normalize_mac(b.mac)) THEN 1 ELSE 0)

RECURSIVE DeviceViolations(_)
DeviceViolations(devices) ==
    IF devices = <<>> THEN 0
    ELSE BindingViolations(Head(devices)) + DeviceViolations(Tail(devices))

\* the rules the posted document violates, over all channels and devices
RECURSIVE ViolatedRules(_)
ViolatedRules(channels) ==
    IF channels = <<>> THEN 0
    ELSE LET ch == Head(channels)
         IN  (IF ch.port \in {Absent, ""} THEN 1 ELSE 0)
             + (IF ~Truthy(ch.vlan) THEN 1 ELSE 0)
             + BindingViolations(ch.io_block)
             + DeviceViolations(ch.devices)
             + ViolatedRules(Tail(channels))

\* C15: validation never raises, whatever is posted: it returns a list
\* that holds one error for every rule violated in any channel or device.
C15_ValidatorNeverRaises ==
    validation.done =>
        /\ ~validation.raised
        /\ Len(validation.errors) = ViolatedRules(validation.posted.channels)

\* the posted document was validated and no error was found
Accepted ==
    validation.done /\ ~validation.raised /\ validation.errors = <<>>

\* every (mac, vlan, ip, port) that can be made of what the channels of t
\* hold, a missing mac or ip included
TuplesOf(t) ==
    LET chs == {t.channels[i] : i \in 1..Len(t.channels)}
        bs  == UNION {{ch.io_block}
                        \cup {ch.devices[j] : j \in 1..Len(ch.devices)} :
                      ch \in chs}
    IN  {[mac |-> m.mac, vlan |-> c.vlan, ip |-> a.ip, port |-> c.port] :
            m \in bs, a \in bs, c \in chs}

\* the bindings of t that have both their ip and their mac
RECURSIVE CompleteBindings(_)
CompleteBindings(channels) ==
    IF channels = <<>> THEN 0
    ELSE LET ch == Head(channels)
         IN  (IF Complete(ch.io_block) THEN 1 ELSE 0)
             + Len(SelectSeq(ch.devices, LAMBDA d : Complete(d)))
             + CompleteBindings(Tail(channels))

C19_AcceptedIsWellFormed ==
    Accepted =>
        /\ \A i, j \in 1..Len(topology.channels) :
              i # j => topology.channels[i].port # topology.channels[j].port
        /\ \A i \in 1..Len(topology.channels) :
              topology.channels[i].vlan > 0

====
